---- MODULE Spec2Model ----
(***************************************************************************)
(* Model of the duplicate-file executor (duplicate_executor.py) and of the *)
(* rollback utility (rollback_duplicates.py).                              *)
(*                                                                         *)
(* The filesystem is a map from user paths to nodes (absent, regular file  *)
(* with a content, symbolic link to a path).  Hard links are kept at the   *)
(* level of content: no statement of the two scripts writes into a         *)
(* regular file that still has a second name, so sharing of an inode is    *)
(* not observable in the content of any path.  The interpreter is one that *)
(* provides pathlib.Path.hardlink_to.                                      *)
(*                                                                         *)
(* Scenarios.  Spec: runs of the executor, then runs of the rollback       *)
(* utility, MaxSessions runs in all; the rollback utility is given the     *)
(* ledger of the executor, or, on the initial tree, a ledger file no run   *)
(* of the executor wrote.  SpecBatch: one batch of the executor, whose     *)
(* loop goes on.  SpecOps: the methods of the executor called directly.    *)
(* At most MaxFaults statements raise for a cause outside the program.     *)
(***************************************************************************)
EXTENDS Integers, Sequences, FiniteSets, TLC

VARIABLES fs, backups, backupDirs, rollbackFile, now,
          pc, ex, rb, hist, exitCode

vars == <<fs, backups, backupDirs, rollbackFile, now,
          pc, ex, rb, hist, exitCode>>

-----------------------------------------------------------------------------
(* Bounds of the model *)

MaxRows == 2

MaxNow == 2

MaxSessions == 2

MaxFaults == 1

MaxCalls == 2

-----------------------------------------------------------------------------
(* Paths, directories, file names *)

Dirs == {"a", "b"}

Paths == {"a/x", "a/y", "b/x"}

NoPath == "-"

MissingField == "<missing>"

Dir(p) == IF p = "b/x" THEN "b" ELSE "a"

Name(p) == IF p = "a/y" THEN "y" ELSE "x"

InitialContent(p) == CASE p = "a/x" -> 1 [] p = "a/y" -> 2 [] OTHER -> 3

Garbage == 0

Absent == -1

(* datetime.now() has a finer resolution than the %H%M%S of a backup name: *)
(* two ticks of the clock make one second.                                 *)
Second(t) == t \div 2

-----------------------------------------------------------------------------
(* Filesystem nodes and the pathlib / shutil primitives *)

NoNode == [k |-> "none", c |-> Absent, to |-> NoPath]

File(c) == [k |-> "file", c |-> c, to |-> NoPath]

Sym(p) == [k |-> "sym", c |-> Absent, to |-> p]

Loop == "<loop>"

RECURSIVE Walk(_, _, _)
Walk(f, p, n) ==
    IF f[p].k = "sym"
    THEN IF n = 0 THEN Loop ELSE Walk(f, f[p].to, n - 1)
    ELSE p

(* The path a chain of symbolic links ends at, or Loop *)
Final(f, p) == Walk(f, p, Cardinality(Paths))

(* Path.exists(): follows symbolic links; dangling or looping is False *)
Exists(f, p) == LET q == Final(f, p) IN q # Loop /\ f[q].k = "file"

IsSymlink(f, p) == f[p].k = "sym"

(* The bytes read through p, Absent when p does not resolve to a file *)
Content(f, p) == IF Exists(f, p) THEN f[Final(f, p)].c ELSE Absent

Unlink(f, p) == [f EXCEPT ![p] = NoNode]

(* open(dst, 'wb') of shutil.copy2: follows symbolic links, creates the   *)
(* file the chain ends at                                                  *)
WriteThrough(f, dst, c) == [f EXCEPT ![Final(f, dst)] = File(c)]

CanWriteThrough(f, dst) == Final(f, dst) # Loop

-----------------------------------------------------------------------------
(* Action vocabulary *)

LinkActions == {"SOFTLINK_ORIGINAL", "SOFTLINK_DUPLICATE",
                "HARDLINK_ORIGINAL", "HARDLINK_DUPLICATE"}

HardActions == {"HARDLINK_ORIGINAL", "HARDLINK_DUPLICATE"}

SingleDeletes == {"DELETE_ORIGINAL", "DELETE_DUPLICATE"}

ActionType == LinkActions \cup SingleDeletes \cup {"DELETE_BOTH"}

ActionStrings == ActionType \cup {"REVIEW_NEEDED", "BOGUS"}

DuplicateEntry == [action : ActionStrings, orig : Paths, dup : Paths]

(* What a DELETE_BOTH request found when it began: whether its two paths   *)
(* existed, and the length of the ledger                                   *)
Found(f, r, entries) ==
    [orig |-> Exists(f, r.orig), dup |-> Exists(f, r.dup), n |-> Len(entries)]

NoStart == [orig |-> FALSE, dup |-> FALSE, n |-> 0]

OperationStats == [total_rows |-> 0, processed_rows |-> 0, softlinks_created |-> 0,
                   hardlinks_created |-> 0, files_deleted |-> 0, errors |-> 0,
                   skipped |-> 0]

RollbackEntry(ts, kind, orig, tgt, bpath) ==
    [timestamp |-> ts, operation_type |-> kind, original_path |-> orig,
     target_path |-> tgt, backup_path |-> bpath, status |-> "active"]

NoFile == [state |-> "absent", fields |-> {}, timestamp |-> 0, dry_run |-> FALSE,
           backup_directory |-> 0, operations |-> <<>>]

-----------------------------------------------------------------------------
(* Validator *)

(* What os.access(dir, os.W_OK) and stat().st_dev answer for the two       *)
(* directories while one request is validated                              *)
Environments ==
    [writable : {[d \in Dirs |-> TRUE], [d \in Dirs |-> d = "a"]},
     dev : {[d \in Dirs |-> 1], [d \in Dirs |-> IF d = "a" THEN 1 ELSE 2]}]

(* A validator that asks for one of the two files only *)
validate_file_paths_lenient(f, writable, dev, orig, dup, action, oserr) ==
    IF oserr THEN "ERROR"
    ELSE IF ~Exists(f, orig) /\ ~Exists(f, dup) THEN "ERROR"
    ELSE IF Exists(f, orig) /\ ~writable[Dir(orig)] THEN "ERROR"
    ELSE IF Exists(f, dup) /\ ~writable[Dir(dup)] THEN "ERROR"
    ELSE IF action \in HardActions
    THEN IF ~Exists(f, orig) THEN "ERROR"
         ELSE IF dev[Dir(Final(f, orig))] # dev[Dir(dup)] THEN "CROSS_DEVICE"
         ELSE "SUCCESS"
    ELSE "SUCCESS"

validate_file_paths(f, writable, dev, orig, dup, action, oserr) ==
    IF oserr THEN "ERROR"
    ELSE IF action \in (LinkActions \cup SingleDeletes)
            /\ (~Exists(f, orig) \/ ~Exists(f, dup))
    THEN "ERROR"
    ELSE IF action = "DELETE_BOTH" /\ ~Exists(f, orig) /\ ~Exists(f, dup)
    THEN "ERROR"
    ELSE IF Exists(f, orig) /\ ~writable[Dir(orig)] THEN "ERROR"
    ELSE IF Exists(f, dup) /\ ~writable[Dir(dup)] THEN "ERROR"
    ELSE IF action \in HardActions
    THEN IF ~Exists(f, orig) THEN "ERROR"
         ELSE IF dev[Dir(Final(f, orig))] # dev[Dir(dup)] THEN "CROSS_DEVICE"
         ELSE "SUCCESS"
    ELSE "SUCCESS"

-----------------------------------------------------------------------------
(* Backup manager *)

Prefix(op) == CASE op = "softlink" -> "softlink"
                [] op = "hardlink" -> "hardlink"
                [] OTHER -> "deleted"

(* f"{prefix}_{file.name}_{datetime.now().strftime('%H%M%S')}" *)
BackupName(op, p, t) == <<Prefix(op), Name(p), Second(t)>>

(* self.backup_dir / backup_name *)
BackupPath(bdir, bname) == <<bdir, bname[1], bname[2], bname[3]>>

Store(bk, bp, c) == [q \in (DOMAIN bk) \cup {bp} |-> IF q = bp THEN c ELSE bk[q]]

(* create_backup: its result, for the failure mode of shutil.copy2        *)
(* ("none": the copy is written, "clean": nothing is written, "partial":   *)
(* a truncated copy is left behind)                                        *)
create_backup_result(dry, f, file_path, mode) ==
    dry \/ ~Exists(f, file_path) \/ mode = "none"

(* A create_backup that keeps a backup already stored under the name *)
create_backup_keeps(bk, dry, f, bdir, file_path, bname, mode) ==
    IF dry \/ ~Exists(f, file_path) \/ mode = "clean" THEN bk
    ELSE IF BackupPath(bdir, bname) \in DOMAIN bk THEN bk
    ELSE Store(bk, BackupPath(bdir, bname), Content(f, file_path))

(* create_backup: the backup directory after the call *)
create_backup(bk, dry, f, bdir, file_path, bname, mode) ==
    IF dry \/ ~Exists(f, file_path) \/ mode = "clean" THEN bk
    ELSE IF mode = "partial" THEN Store(bk, BackupPath(bdir, bname), Garbage)
    ELSE Store(bk, BackupPath(bdir, bname), Content(f, file_path))

-----------------------------------------------------------------------------
(* Mutation executor.  An executor call maps a world (filesystem, backup   *)
(* directory, ledger, statistics) to the world after the call and its      *)
(* return value.  A fault names the statement of the call that raises:     *)
(*   "backup": shutil.copy2 in create_backup;                              *)
(*   "unlink": the unlink of the target;                                   *)
(*   "link", "link_norestore": symlink_to / hardlink_to, and then the      *)
(*       copy2 of the except branch works, or raises too.                  *)
(* A copy that raises leaves no file behind.                               *)

Faults == {"none", "backup", "unlink", "link", "link_norestore"}

BackupMode(fault) == IF fault = "backup" THEN "clean" ELSE "none"

RestoreMode(fault) == IF fault = "link_norestore" THEN "clean" ELSE "none"

World(f, bk, entries, stats) ==
    [fs |-> f, bk |-> bk, entries |-> entries, stats |-> stats, ret |-> "none"]

RetOK(x) == x \in {"ok", "dry", "absent"}

Call(op, src, tgt) == [op |-> op, src |-> src, tgt |-> tgt]

(* os.symlink / os.link raise OSError for the state of the two paths *)
LinkRaises(f, c, follow) ==
    \/ f[c.tgt].k # "none"
    \/ /\ c.op = "hardlink"
       /\ IF follow THEN ~Exists(f, c.src) ELSE f[c.src].k = "none"

(* The node the link primitive creates at the target; follow: os.link      *)
(* follows a symbolic link given as its source, or links the link itself   *)
LinkNode(f, c, follow) ==
    IF c.op = "softlink" THEN Sym(c.src)
    ELSE IF follow THEN File(Content(f, c.src))
    ELSE f[c.src]

Count(stats, op) ==
    CASE op = "softlink" -> [stats EXCEPT !.softlinks_created = @ + 1]
      [] op = "hardlink" -> [stats EXCEPT !.hardlinks_created = @ + 1]
      [] OTHER -> [stats EXCEPT !.files_deleted = @ + 1]

(* The RollbackEntry of a successful executor call *)
EntryOf(c, bdir, bname, t) ==
    IF c.op = "delete"
    THEN RollbackEntry(t, "delete", c.tgt, "", BackupPath(bdir, bname))
    ELSE RollbackEntry(t, c.op, c.src, c.tgt, BackupPath(bdir, bname))

(* self.rollback_entries.append(rollback_entry) *)
Log(entries, c, bdir, bname, t) == Append(entries, EntryOf(c, bdir, bname, t))

(* The filesystem after shutil.copy2(backup_path, dst), when it is called *)
Restore(f, bk, bp, dst, mode) ==
    IF bp \notin DOMAIN bk \/ ~CanWriteThrough(f, dst) \/ mode = "clean" THEN f
    ELSE IF mode = "partial" THEN WriteThrough(f, dst, Garbage)
    ELSE WriteThrough(f, dst, bk[bp])

(* The target of a link operation after "if target_file.exists():          *)
(* target_file.unlink()"                                                   *)
RemoveTarget(f, tgt, fault) ==
    IF Exists(f, tgt) /\ fault # "unlink" THEN Unlink(f, tgt) ELSE f

(* An execute_link that goes on after a backup that failed *)
execute_link_unchecked(w, dry, bdir, t, c, fault, follow) ==
    IF dry THEN [w EXCEPT !.ret = "dry"]
    ELSE LET bname == BackupName(c.op, c.tgt, t)
             bk1 == create_backup(w.bk, dry, w.fs, bdir, c.tgt, bname, BackupMode(fault))
             f1 == RemoveTarget(w.fs, c.tgt, fault)
         IN  IF fault \in {"unlink", "link", "link_norestore"} \/ LinkRaises(f1, c, follow)
             THEN [w EXCEPT !.bk = bk1,
                            !.fs = Restore(f1, bk1, BackupPath(bdir, bname), c.tgt,
                                           RestoreMode(fault)),
                            !.ret = "failed"]
             ELSE [w EXCEPT !.bk = bk1,
                            !.fs = [f1 EXCEPT ![c.tgt] = LinkNode(f1, c, follow)],
                            !.entries = Log(@, c, bdir, bname, t),
                            !.stats = Count(@, c.op),
                            !.ret = "ok"]

(* An execute_link whose except branch does not restore the target *)
execute_link_norestore(w, dry, bdir, t, c, fault, follow) ==
    IF dry THEN [w EXCEPT !.ret = "dry"]
    ELSE LET bname == BackupName(c.op, c.tgt, t)
             bk1 == create_backup(w.bk, dry, w.fs, bdir, c.tgt, bname, BackupMode(fault))
             f1 == RemoveTarget(w.fs, c.tgt, fault)
             raised == \/ Exists(w.fs, c.tgt) /\ fault = "unlink"
                       \/ fault \in {"link", "link_norestore"}
                       \/ LinkRaises(f1, c, follow)
         IN  IF ~create_backup_result(dry, w.fs, c.tgt, BackupMode(fault))
             THEN [w EXCEPT !.bk = bk1, !.ret = "backup_failed"]
             ELSE IF raised
             THEN [w EXCEPT !.bk = bk1, !.fs = f1, !.ret = "failed"]
             ELSE [w EXCEPT !.bk = bk1,
                            !.fs = [f1 EXCEPT ![c.tgt] = LinkNode(f1, c, follow)],
                            !.entries = Log(@, c, bdir, bname, t),
                            !.stats = Count(@, c.op),
                            !.ret = "ok"]

(* execute_soft_link and execute_hard_link (c.op tells which) *)
execute_link(w, dry, bdir, t, c, fault, follow) ==
    IF dry THEN [w EXCEPT !.ret = "dry"]
    ELSE LET bname == BackupName(c.op, c.tgt, t)
             bk1 == create_backup(w.bk, dry, w.fs, bdir, c.tgt, bname, BackupMode(fault))
             f1 == RemoveTarget(w.fs, c.tgt, fault)
             raised == \/ Exists(w.fs, c.tgt) /\ fault = "unlink"
                       \/ fault \in {"link", "link_norestore"}
                       \/ LinkRaises(f1, c, follow)
         IN  IF ~create_backup_result(dry, w.fs, c.tgt, BackupMode(fault))
             THEN [w EXCEPT !.bk = bk1, !.ret = "backup_failed"]
             ELSE IF raised
             THEN [w EXCEPT !.bk = bk1,
                            !.fs = Restore(f1, bk1, BackupPath(bdir, bname), c.tgt,
                                           RestoreMode(fault)),
                            !.ret = "failed"]
             ELSE [w EXCEPT !.bk = bk1,
                            !.fs = [f1 EXCEPT ![c.tgt] = LinkNode(f1, c, follow)],
                            !.entries = Log(@, c, bdir, bname, t),
                            !.stats = Count(@, c.op),
                            !.ret = "ok"]

(* An execute_delete that appends its entry before the unlink *)
execute_delete_logs_first(w, dry, bdir, t, c, fault) ==
    IF dry THEN [w EXCEPT !.ret = "dry"]
    ELSE IF ~Exists(w.fs, c.tgt) THEN [w EXCEPT !.ret = "absent"]
    ELSE LET bname == BackupName(c.op, c.tgt, t)
             bk1 == create_backup(w.bk, dry, w.fs, bdir, c.tgt, bname, BackupMode(fault))
         IN  IF ~create_backup_result(dry, w.fs, c.tgt, BackupMode(fault))
             THEN [w EXCEPT !.bk = bk1, !.ret = "backup_failed"]
             ELSE IF fault = "unlink"
             THEN [w EXCEPT !.bk = bk1, !.entries = Log(@, c, bdir, bname, t),
                            !.ret = "failed"]
             ELSE [w EXCEPT !.bk = bk1,
                            !.fs = Unlink(w.fs, c.tgt),
                            !.entries = Log(@, c, bdir, bname, t),
                            !.stats = Count(@, c.op),
                            !.ret = "ok"]

(* An execute_delete that reports a missing file as a failure *)
execute_delete_strict(w, dry, bdir, t, c, fault) ==
    IF dry THEN [w EXCEPT !.ret = "dry"]
    ELSE IF ~Exists(w.fs, c.tgt) THEN [w EXCEPT !.ret = "failed"]
    ELSE LET bname == BackupName(c.op, c.tgt, t)
             bk1 == create_backup(w.bk, dry, w.fs, bdir, c.tgt, bname, BackupMode(fault))
         IN  IF ~create_backup_result(dry, w.fs, c.tgt, BackupMode(fault))
             THEN [w EXCEPT !.bk = bk1, !.ret = "backup_failed"]
             ELSE IF fault = "unlink"
             THEN [w EXCEPT !.bk = bk1, !.ret = "failed"]
             ELSE [w EXCEPT !.bk = bk1,
                            !.fs = Unlink(w.fs, c.tgt),
                            !.entries = Log(@, c, bdir, bname, t),
                            !.stats = Count(@, c.op),
                            !.ret = "ok"]

execute_delete(w, dry, bdir, t, c, fault) ==
    IF dry THEN [w EXCEPT !.ret = "dry"]
    ELSE IF ~Exists(w.fs, c.tgt) THEN [w EXCEPT !.ret = "absent"]
    ELSE LET bname == BackupName(c.op, c.tgt, t)
             bk1 == create_backup(w.bk, dry, w.fs, bdir, c.tgt, bname, BackupMode(fault))
         IN  IF ~create_backup_result(dry, w.fs, c.tgt, BackupMode(fault))
             THEN [w EXCEPT !.bk = bk1, !.ret = "backup_failed"]
             ELSE IF fault = "unlink"
             THEN [w EXCEPT !.bk = bk1, !.ret = "failed"]
             ELSE [w EXCEPT !.bk = bk1,
                            !.fs = Unlink(w.fs, c.tgt),
                            !.entries = Log(@, c, bdir, bname, t),
                            !.stats = Count(@, c.op),
                            !.ret = "ok"]

(* One executor call *)
Execute(w, dry, bdir, t, c, fault, follow) ==
    IF c.op = "delete" THEN execute_delete(w, dry, bdir, t, c, fault)
    ELSE execute_link(w, dry, bdir, t, c, fault, follow)

(* The executor calls of one request, in call order *)
Calls(r) ==
    CASE r.action = "SOFTLINK_ORIGINAL" -> <<Call("softlink", r.dup, r.orig)>>
      [] r.action = "SOFTLINK_DUPLICATE" -> <<Call("softlink", r.orig, r.dup)>>
      [] r.action = "HARDLINK_ORIGINAL" -> <<Call("hardlink", r.dup, r.orig)>>
      [] r.action = "HARDLINK_DUPLICATE" -> <<Call("hardlink", r.orig, r.dup)>>
      [] r.action = "DELETE_ORIGINAL" -> <<Call("delete", NoPath, r.orig)>>
      [] r.action = "DELETE_DUPLICATE" -> <<Call("delete", NoPath, r.dup)>>
      [] OTHER -> <<Call("delete", NoPath, r.orig), Call("delete", NoPath, r.dup)>>

-----------------------------------------------------------------------------
(* Initial state: before either script runs *)

Snapshot(f, bk, dirs, file) == [fs |-> f, backups |-> bk, dirs |-> dirs, file |-> file]

NewExecutor(dry, t, n) ==
    [dry_run |-> dry, backup_dir |-> Second(t), rollback_entries |-> <<>>,
     stats |-> [OperationStats EXCEPT !.total_rows = n], done |-> 0,
     pending |-> <<>>, success1 |-> TRUE, ret |-> "none"]

Init ==
    /\ fs \in [Paths -> {NoNode} \cup {File(c) : c \in 1..3}]
    /\ \A p \in Paths : fs[p].k = "file" => fs[p].c = InitialContent(p)
    /\ \A p \in Paths : Dir(p) = "a" => fs[p].k = "file"
    /\ backups = <<>>
    /\ backupDirs = {}
    /\ rollbackFile = NoFile
    /\ now = 0
    /\ pc = "idle"
    /\ ex = NewExecutor(FALSE, 0, 0)
    /\ rb = [dry_run |-> FALSE, todo |-> <<>>,
             stats |-> [total_operations |-> 0, successful_rollbacks |-> 0,
                        failed_rollbacks |-> 0, skipped_operations |-> 0]]
    /\ hist = [sessions |-> 0, last |-> "none", ended |-> "",
               pre |-> Snapshot(fs, <<>>, {}, NoFile), bpre |-> fs,
               attempted |-> <<>>, allOk |-> TRUE, disjoint |-> TRUE,
               touched |-> {}, wrote |-> FALSE, rows |-> 0, faults |-> 0,
               rollbacks |-> 0,
               list |-> <<>>, log |-> <<>>, undo |-> FALSE,
               verdict |-> "NONE", start |-> NoStart,
               loaded |-> FALSE]
    /\ exitCode = -1

(* Time passes.  The clock is read when a run starts and by each request:  *)
(* the steps of the clock are taken between two requests and between two   *)
(* runs, where the next reading sees them                                  *)
(* The runs of either script so far *)
Runs == hist.sessions + hist.rollbacks

Tick ==
    /\ \/ pc = "loop" /\ 0 < ex.done /\ ex.done < ex.stats.total_rows
       \/ pc = "idle" /\ 0 < Runs /\ Runs < MaxSessions
    /\ now < MaxNow
    /\ now' = now + 1
    /\ UNCHANGED <<fs, backups, backupDirs, rollbackFile, pc, ex, rb, hist, exitCode>>

-----------------------------------------------------------------------------
(* DuplicateFileExecutor *)

(* __init__ followed by execute up to the loop over the parsed entries:    *)
(* check_prerequisites may fail, parse_csv_file yields n entries           *)
ExecStart(dry, prereq, n) ==
    /\ pc = "idle"
    /\ hist.rollbacks = 0
    /\ Runs < MaxSessions
    /\ hist.rows < MaxRows
    /\ hist.rows + n <= MaxRows
    /\ ex' = NewExecutor(dry, now, IF prereq THEN n ELSE 0)
    /\ backupDirs' = IF dry THEN backupDirs ELSE backupDirs \cup {Second(now)}
    /\ pc' = IF prereq /\ n > 0 THEN "loop" ELSE "idle"
    /\ exitCode' = IF prereq /\ n > 0 THEN -1 ELSE 1
    /\ hist' = [hist EXCEPT !.sessions = @ + 1, !.last = "exec",
                            !.rows = IF prereq /\ n > 0 THEN @ + n ELSE @ + 1,
                            !.ended = IF prereq /\ n > 0 THEN "" ELSE "return",
                            !.pre = Snapshot(fs, backups, backupDirs, rollbackFile),
                            !.bpre = fs, !.attempted = <<>>, !.allOk = TRUE,
                            !.disjoint = TRUE, !.touched = {}, !.wrote = FALSE,
                            !.verdict = "NONE", !.start = NoStart]
    /\ UNCHANGED <<fs, backups, rollbackFile, now, rb>>

(* What a request leaves in the history when it is over: whether every     *)
(* request so far succeeded, and then the paths they named and whether     *)
(* these were pairwise disjoint                                            *)
Over(h, paths, ok) ==
    IF h.allOk /\ ok
    THEN [h EXCEPT !.disjoint = @ /\ (paths \cap h.touched = {}),
                   !.touched = @ \cup paths]
    ELSE [h EXCEPT !.allOk = FALSE, !.disjoint = FALSE, !.touched = {}]

(* The faults met so far *)
Faulted(h, fault) == IF fault = "none" THEN h ELSE [h EXCEPT !.faults = @ + 1]

(* A tally that counts a failed row as skipped too *)
TallyStats_twice(stats, success) ==
    IF success THEN [stats EXCEPT !.processed_rows = @ + 1]
    ELSE [stats EXCEPT !.errors = @ + 1, !.skipped = @ + 1]

(* "if success: processed_rows += 1 else: errors += 1" *)
TallyStats(stats, success) ==
    IF success THEN [stats EXCEPT !.processed_rows = @ + 1]
    ELSE [stats EXCEPT !.errors = @ + 1]

TheWorld == World(fs, backups, ex.rollback_entries, ex.stats)

(* The verdicts the validator can give on a request, over the answers of   *)
(* the environment                                                         *)
Verdicts(f, r) ==
    {validate_file_paths(f, env.writable, env.dev, r.orig, r.dup, r.action, oserr) :
        env \in Environments, oserr \in BOOLEAN}

(* A process_action whose validation error ends the batch *)
SkipRow_aborts(r) ==
    /\ pc = "loop"
    /\ ex.done < ex.stats.total_rows
    /\ \E v \in (IF r.action \notin ActionType THEN {"NONE"}
                 ELSE Verdicts(fs, r) \ {"SUCCESS"}) :
          /\ ex' = [ex EXCEPT !.stats.skipped = IF v = "ERROR" THEN @ ELSE @ + 1,
                              !.stats.errors = IF v = "ERROR" THEN @ + 1 ELSE @,
                              !.done = @ + 1, !.ret = "none"]
          /\ pc' = IF v = "ERROR" THEN "idle" ELSE pc
          /\ exitCode' = IF v = "ERROR" THEN 1 ELSE exitCode
    /\ hist' = Over([hist EXCEPT !.attempted = Append(@, ex.done + 1),
                                 !.ended = IF pc' = "idle" THEN "return" ELSE @],
                    {r.orig, r.dup}, FALSE)
    /\ UNCHANGED <<fs, backups, backupDirs, rollbackFile, now, rb>>

(* process_action for a row that is not executed: no valid action or an    *)
(* unknown one (v = "NONE"); otherwise the verdict of the validator        *)
SkipRow(r) ==
    /\ pc = "loop"
    /\ ex.done < ex.stats.total_rows
    /\ \E v \in (IF r.action \notin ActionType THEN {"NONE"}
                 ELSE Verdicts(fs, r) \ {"SUCCESS"}) :
          /\ ex' = [ex EXCEPT !.stats.skipped = IF v = "ERROR" THEN @ ELSE @ + 1,
                              !.stats.errors = IF v = "ERROR" THEN @ + 1 ELSE @,
                              !.done = @ + 1, !.ret = "none"]
          /\ hist' = Over([hist EXCEPT !.attempted = Append(@, ex.done + 1),
                                       !.verdict = v],
                          {r.orig, r.dup}, FALSE)
    /\ UNCHANGED <<fs, backups, backupDirs, rollbackFile, now, pc, rb, exitCode>>

(* The faults an executor call can meet, and the ways os.link can treat a  *)
(* symbolic link                                                           *)
FaultsOf(c, dry) ==
    IF dry \/ hist.faults >= MaxFaults THEN {"none"}
    ELSE IF c.op = "delete" THEN {"none", "backup", "unlink"}
    ELSE Faults

FollowsOf(c, dry) ==
    IF c.op = "hardlink" /\ ~dry /\ IsSymlink(fs, c.src) THEN BOOLEAN ELSE {FALSE}

(* process_action for a row that passes validation: its executor call and  *)
(* the tally; of a DELETE_BOTH row the first call, the second is pending   *)
ProcessAction(r) ==
    /\ pc = "loop"
    /\ ex.done < ex.stats.total_rows
    /\ r.action \in ActionType
    /\ "SUCCESS" \in Verdicts(fs, r)
    /\ \E fault \in FaultsOf(Calls(r)[1], ex.dry_run),
          follow \in FollowsOf(Calls(r)[1], ex.dry_run) :
       LET cs == Calls(r)
           w == Execute(TheWorld, ex.dry_run, ex.backup_dir, now, cs[1], fault, follow)
           h == Faulted([hist EXCEPT !.attempted = Append(@, ex.done + 1),
                                     !.verdict = "SUCCESS"], fault)
       IN  /\ fs' = w.fs
           /\ backups' = w.bk
           /\ IF Len(cs) = 1
              THEN /\ ex' = [ex EXCEPT !.rollback_entries = w.entries,
                                       !.stats = TallyStats(w.stats, RetOK(w.ret)),
                                       !.done = @ + 1, !.ret = w.ret]
                   /\ hist' = Over(h, {r.orig, r.dup}, RetOK(w.ret))
                   /\ pc' = "loop"
              ELSE /\ ex' = [ex EXCEPT !.rollback_entries = w.entries,
                                       !.stats = w.stats,
                                       !.pending = cs,
                                       !.success1 = RetOK(w.ret), !.ret = w.ret]
                   /\ hist' = [h EXCEPT !.start = Found(fs, r, ex.rollback_entries)]
                   /\ pc' = "second"
    /\ UNCHANGED <<backupDirs, rollbackFile, now, rb, exitCode>>

(* A DELETE_BOTH that gives up the duplicate when the original's delete     *)
(* failed                                                                  *)
DeleteSecond_gives_up ==
    /\ pc = "second"
    /\ \E fault \in FaultsOf(ex.pending[2], ex.dry_run) :
       LET c == ex.pending[2]
           w == IF ex.success1
                THEN Execute(TheWorld, ex.dry_run, ex.backup_dir, now, c, fault, FALSE)
                ELSE TheWorld
           success == ex.success1 /\ RetOK(w.ret)
       IN  /\ fs' = w.fs
           /\ backups' = w.bk
           /\ ex' = [ex EXCEPT !.rollback_entries = w.entries,
                               !.stats = TallyStats(w.stats, success),
                               !.done = @ + 1, !.pending = <<>>, !.success1 = TRUE,
                               !.ret = w.ret]
           /\ hist' = Over(Faulted(hist, fault), {ex.pending[1].tgt, c.tgt}, success)
    /\ pc' = "loop"
    /\ UNCHANGED <<backupDirs, rollbackFile, now, rb, exitCode>>

(* The second execute_delete of a DELETE_BOTH row, and the tally *)
DeleteSecond ==
    /\ pc = "second"
    /\ \E fault \in FaultsOf(ex.pending[2], ex.dry_run) :
       LET c == ex.pending[2]
           w == Execute(TheWorld, ex.dry_run, ex.backup_dir, now, c, fault, FALSE)
           success == ex.success1 /\ RetOK(w.ret)
       IN  /\ fs' = w.fs
           /\ backups' = w.bk
           /\ ex' = [ex EXCEPT !.rollback_entries = w.entries,
                               !.stats = TallyStats(w.stats, success),
                               !.done = @ + 1, !.pending = <<>>, !.success1 = TRUE,
                               !.ret = w.ret]
           /\ hist' = Over(Faulted(hist, fault), {ex.pending[1].tgt, c.tgt}, success)
    /\ pc' = "loop"
    /\ UNCHANGED <<backupDirs, rollbackFile, now, rb, exitCode>>

(* A document dumped without its timestamp *)
LedgerDoc_untimed(e, t) ==
    [state |-> "json",
     fields |-> {"dry_run", "backup_directory", "operations"},
     timestamp |-> t, dry_run |-> e.dry_run, backup_directory |-> e.backup_dir,
     operations |-> e.rollback_entries]

(* The document save_rollback_data dumps *)
LedgerDoc(e, t) ==
    [state |-> "json",
     fields |-> {"timestamp", "dry_run", "backup_directory", "operations"},
     timestamp |-> t, dry_run |-> e.dry_run, backup_directory |-> e.backup_dir,
     operations |-> e.rollback_entries]

(* save_rollback_data opens the ledger file for writing *)
Saves(e) == ~(e.rollback_entries = <<>> /\ ~e.dry_run)

(* The ledger file after save_rollback_data; mode: the write works, raises *)
(* before anything is written, raises having written a part                *)
save_rollback_data(file, e, t, mode) ==
    IF ~Saves(e) \/ mode = "clean" THEN file
    ELSE IF mode = "partial" THEN [LedgerDoc(e, t) EXCEPT !.state = "garbage"]
    ELSE LedgerDoc(e, t)

(* An execute that returns 2 for a skipped row as well *)
ExecFinish_strict(mode) ==
    /\ pc = "loop"
    /\ ex.done = ex.stats.total_rows
    /\ rollbackFile' = save_rollback_data(rollbackFile, ex, now, mode)
    /\ exitCode' = IF ex.stats.errors + ex.stats.skipped > 0 THEN 2 ELSE 0
    /\ mode # "none" => Saves(ex) /\ hist.faults < MaxFaults
    /\ pc' = "idle"
    /\ hist' = Faulted([hist EXCEPT !.ended = "return",
                                     !.wrote = Saves(ex) /\ mode = "none",
                                     !.verdict = "NONE"],
                        IF mode = "none" THEN "none" ELSE "write")
    /\ UNCHANGED <<fs, backups, backupDirs, now, ex, rb>>

(* The end of execute: save_rollback_data and the exit code *)
ExecFinish(mode) ==
    /\ pc = "loop"
    /\ ex.done = ex.stats.total_rows
    /\ rollbackFile' = save_rollback_data(rollbackFile, ex, now, mode)
    /\ exitCode' = IF ex.stats.errors > 0 THEN 2 ELSE 0
    /\ mode # "none" => Saves(ex) /\ hist.faults < MaxFaults
    /\ pc' = "idle"
    /\ hist' = Faulted([hist EXCEPT !.ended = "return",
                                     !.wrote = Saves(ex) /\ mode = "none",
                                     !.verdict = "NONE"],
                        IF mode = "none" THEN "none" ELSE "write")
    /\ UNCHANGED <<fs, backups, backupDirs, now, ex, rb>>

CopyModes == {"none", "clean", "partial"}

-----------------------------------------------------------------------------
(* DuplicateRollback *)

NoTimestamp == -1

Reverse(q) == [i \in 1..Len(q) |-> q[Len(q) + 1 - i]]

(* Ledger files that no run of the executor wrote: entries of an unknown   *)
(* kind or without a path, a file that is no JSON, a document without its  *)
(* operations                                                              *)
ForeignEntries ==
    <<RollbackEntry(0, "delete", "a/y", "", <<0, "deleted", "y", 0>>),
      RollbackEntry(0, "delete", "a/x", "", <<0, "deleted", "x", 0>>),
      RollbackEntry(0, "rename", "a/x", "", <<0, "deleted", "x", 0>>),
      RollbackEntry(0, "delete", MissingField, "", <<0, "deleted", "x", 0>>)>>

ForeignDoc(ops, fields) ==
    [state |-> "json", fields |-> fields, timestamp |-> 0, dry_run |-> FALSE,
     backup_directory |-> 0, operations |-> ops]

TopLevel == {"timestamp", "dry_run", "backup_directory", "operations"}

ForeignDocs ==
    <<ForeignDoc(SubSeq(ForeignEntries, 1, 3), TopLevel),
      ForeignDoc(<<ForeignEntries[1], ForeignEntries[4]>>, TopLevel),
      ForeignDoc(<<ForeignEntries[1]>>, TopLevel \ {"operations"}),
      [ForeignDoc(<<ForeignEntries[1]>>, TopLevel) EXCEPT !.state = "garbage"]>>

(* load_rollback_data returns the document, not None *)
load_rollback_data(doc) ==
    /\ doc.state = "json"
    /\ {"timestamp", "operations"} \subseteq doc.fields

(* The operations execute_rollback keeps, in ledger order *)
(* A filter that keeps the entries at its bounds *)
Filtered_inclusive(ops, types, after, before) ==
    LET ByType(op) == types = {} \/ op.operation_type \in types
        After(op) == after = NoTimestamp \/ op.timestamp >= after
        Before(op) == before = NoTimestamp \/ op.timestamp <= before
    IN  SelectSeq(SelectSeq(SelectSeq(ops, ByType), After), Before)

Filtered(ops, types, after, before) ==
    LET ByType(op) == types = {} \/ op.operation_type \in types
        After(op) == after = NoTimestamp \/ op.timestamp > after
        Before(op) == before = NoTimestamp \/ op.timestamp < before
    IN  SelectSeq(SelectSeq(SelectSeq(ops, ByType), After), Before)

RollbackStats(n) ==
    [total_operations |-> n, successful_rollbacks |-> 0, failed_rollbacks |-> 0,
     skipped_operations |-> 0]

(* __init__ and execute_rollback up to the loop over the operations *)
(* --rollback-file names the executor's ledger (0) or a foreign file       *)
RbStart(dry, file, types, after, before) ==
    /\ pc = "idle"
    /\ Runs < MaxSessions
    /\ file # 0 => hist.sessions = 0
    /\ LET doc == IF file = 0 THEN rollbackFile ELSE ForeignDocs[file]
           ops == IF load_rollback_data(doc)
                  THEN Filtered(doc.operations, types, after, before) ELSE <<>>
           begins == load_rollback_data(doc) /\ ops # <<>>
       IN  /\ rb' = [dry_run |-> dry, todo |-> Reverse(ops), stats |-> RollbackStats(Len(ops))]
           /\ pc' = IF begins THEN "rb" ELSE "idle"
           /\ exitCode' = IF ~load_rollback_data(doc) THEN 1
                          ELSE IF ops = <<>> THEN 0 ELSE -1
           /\ hist' = [hist EXCEPT
                 !.rollbacks = @ + 1, !.last = "rb",
                 !.ended = IF begins THEN "" ELSE "return",
                 !.pre = Snapshot(fs, backups, backupDirs, rollbackFile),
                 !.list = ops, !.log = <<>>, !.loaded = load_rollback_data(doc),
                 !.undo = /\ hist.last = "exec" /\ hist.ended = "return" /\ hist.wrote
                          /\ file = 0 /\ ~dry
                          /\ types = {} /\ after = NoTimestamp /\ before = NoTimestamp]
    /\ UNCHANGED <<fs, backups, backupDirs, rollbackFile, now, ex>>

RbFaults == {"none", "unlink", "copy", "partial"}

(* The filesystem after shutil.copy2(backup_path, dst) of a reversal, and  *)
(* whether it raised                                                       *)
CopyBack(f, bk, bp, dst, fault) ==
    IF ~CanWriteThrough(f, dst) \/ fault = "copy" THEN [fs |-> f, ok |-> FALSE]
    ELSE IF fault = "partial" THEN [fs |-> WriteThrough(f, dst, Garbage), ok |-> FALSE]
    ELSE [fs |-> WriteThrough(f, dst, bk[bp]), ok |-> TRUE]

(* A reversal of a delete that removes what it finds at the path *)
rollback_delete_operation_clears(f, bk, op, dry, fault) ==
    IF dry THEN [fs |-> f, ok |-> TRUE]
    ELSE IF op.backup_path \notin DOMAIN bk THEN [fs |-> f, ok |-> FALSE]
    ELSE IF Exists(f, op.original_path)
    THEN [fs |-> Unlink(f, op.original_path), ok |-> FALSE]
    ELSE CopyBack(f, bk, op.backup_path, op.original_path, fault)

(* A reversal of a delete that copies over whatever is at the path *)
rollback_delete_operation_overwrites(f, bk, op, dry, fault) ==
    IF dry THEN [fs |-> f, ok |-> TRUE]
    ELSE IF op.backup_path \notin DOMAIN bk THEN [fs |-> f, ok |-> FALSE]
    ELSE CopyBack(f, bk, op.backup_path, op.original_path, fault)

rollback_delete_operation(f, bk, op, dry, fault) ==
    IF dry THEN [fs |-> f, ok |-> TRUE]
    ELSE IF op.backup_path \notin DOMAIN bk THEN [fs |-> f, ok |-> FALSE]
    ELSE IF Exists(f, op.original_path) THEN [fs |-> f, ok |-> FALSE]
    ELSE CopyBack(f, bk, op.backup_path, op.original_path, fault)

(* A reversal of a link that needs the link to be there *)
rollback_link_operation_strict(f, bk, op, dry, fault) ==
    IF dry THEN [fs |-> f, ok |-> TRUE]
    ELSE LET there == Exists(f, op.target_path) \/ IsSymlink(f, op.target_path)
         IN  IF ~there \/ fault = "unlink" THEN [fs |-> f, ok |-> FALSE]
             ELSE IF op.backup_path \in DOMAIN bk
             THEN CopyBack(Unlink(f, op.target_path), bk, op.backup_path,
                           op.target_path, fault)
             ELSE [fs |-> Unlink(f, op.target_path), ok |-> FALSE]

rollback_link_operation(f, bk, op, dry, fault) ==
    IF dry THEN [fs |-> f, ok |-> TRUE]
    ELSE LET there == Exists(f, op.target_path) \/ IsSymlink(f, op.target_path)
             f1 == IF there THEN Unlink(f, op.target_path) ELSE f
         IN  IF there /\ fault = "unlink" THEN [fs |-> f, ok |-> FALSE]
             ELSE IF op.backup_path \in DOMAIN bk
             THEN CopyBack(f1, bk, op.backup_path, op.target_path, fault)
             ELSE [fs |-> f1, ok |-> FALSE]

(* operation['original_path'] / operation['target_path'] raise KeyError *)
RaisesKeyError(op) ==
    \/ op.operation_type = "delete" /\ op.original_path = MissingField
    \/ op.operation_type \in {"softlink", "hardlink"} /\ op.target_path = MissingField

rollback_operation(f, bk, op, dry, fault) ==
    IF op.operation_type = "delete" THEN rollback_delete_operation(f, bk, op, dry, fault)
    ELSE IF op.operation_type \in {"softlink", "hardlink"}
    THEN rollback_link_operation(f, bk, op, dry, fault)
    ELSE [fs |-> f, ok |-> FALSE]

(* The statistics after the reversal of one operation *)
RbCount(stats, op, ok) ==
    [stats EXCEPT
        !.skipped_operations =
            IF op.operation_type \in {"delete", "softlink", "hardlink"} THEN @ ELSE @ + 1,
        !.successful_rollbacks = IF ok THEN @ + 1 ELSE @,
        !.failed_rollbacks = IF ok THEN @ ELSE @ + 1]

RbFaultsOf(dry) == IF dry \/ hist.faults >= MaxFaults THEN {"none"} ELSE RbFaults

(* One turn of the loop of execute_rollback *)
RbStep ==
    /\ pc = "rb"
    /\ rb.todo # <<>>
    /\ LET op == Head(rb.todo)
       IN  IF RaisesKeyError(op)
           THEN /\ pc' = "idle"
                /\ exitCode' = 1
                /\ hist' = [hist EXCEPT !.ended = "exception", !.log = Append(@, op)]
                /\ UNCHANGED <<fs, rb>>
           ELSE \E fault \in RbFaultsOf(rb.dry_run) :
                LET res == rollback_operation(fs, backups, op, rb.dry_run, fault)
                IN  /\ fs' = res.fs
                    /\ rb' = [rb EXCEPT !.todo = Tail(@),
                                        !.stats = RbCount(@, op, res.ok)]
                    /\ hist' = Faulted([hist EXCEPT !.log = Append(@, op)], fault)
                    /\ UNCHANGED <<pc, exitCode>>
    /\ UNCHANGED <<backups, backupDirs, rollbackFile, now, ex>>

(* The end of execute_rollback *)
RbFinish ==
    /\ pc = "rb"
    /\ rb.todo = <<>>
    /\ exitCode' = IF rb.stats.failed_rollbacks = 0 THEN 0 ELSE 2
    /\ pc' = "idle"
    /\ hist' = [hist EXCEPT !.ended = "return"]
    /\ UNCHANGED <<fs, backups, backupDirs, rollbackFile, now, ex, rb>>

TypeFilters == {{}, {"delete"}, {"softlink", "hardlink"}}

(* The command lines of the rollback script: the executor's ledger with   *)
(* any filter, or a foreign file                                          *)
Arguments ==
    [file : {0}, dry : BOOLEAN, types : TypeFilters,
     after : {NoTimestamp}, before : {NoTimestamp}]
    \cup [file : {0}, dry : {FALSE}, types : {{}},
          after : {NoTimestamp, 0}, before : {NoTimestamp, MaxNow}]
    \cup [file : 1..Len(ForeignDocs), dry : {FALSE}, types : {{}},
          after : {NoTimestamp}, before : {NoTimestamp}]

Next ==
    \/ Tick
    \/ \E dry \in BOOLEAN, prereq \in BOOLEAN, n \in 0..MaxRows : ExecStart(dry, prereq, n)
    \/ \E r \in DuplicateEntry : SkipRow(r)
    \/ \E r \in DuplicateEntry : ProcessAction(r)
    \/ DeleteSecond
    \/ \E mode \in CopyModes : ExecFinish(mode)
    \/ \E a \in Arguments :
          RbStart(a.dry, a.file, a.types, a.after, a.before)
    \/ RbStep
    \/ RbFinish

Spec == Init /\ [][Next]_vars

(* The loop of execute goes on to its end: no statement of it waits *)
Executing ==
    \/ \E r \in DuplicateEntry : SkipRow(r)
    \/ \E r \in DuplicateEntry : ProcessAction(r)
    \/ DeleteSecond
    \/ \E mode \in CopyModes : ExecFinish(mode)

(* The first run of the executor *)
Begin(dry, prereq, n) == hist.sessions = 0 /\ ExecStart(dry, prereq, n)

(* One batch of the executor, from its start to its return *)
NextBatch ==
    \/ Tick
    \/ \E dry \in BOOLEAN, prereq \in BOOLEAN, n \in 0..MaxRows : Begin(dry, prereq, n)
    \/ Executing

SpecBatch == Init /\ [][NextBatch]_vars /\ WF_vars(Executing)

-----------------------------------------------------------------------------
(* The executor as a library: a client constructs a DuplicateFileExecutor  *)
(* and calls execute_soft_link, execute_hard_link and execute_delete on    *)
(* paths of its choice, without validate_file_paths before them            *)

(* __init__ with _setup_directories *)
Construct(dry) ==
    /\ pc = "idle"
    /\ Runs = 0
    /\ ex' = NewExecutor(dry, now, 0)
    /\ backupDirs' = IF dry THEN backupDirs ELSE backupDirs \cup {Second(now)}
    /\ pc' = "api"
    /\ hist' = [hist EXCEPT !.sessions = @ + 1, !.last = "exec",
                            !.pre = Snapshot(fs, backups, backupDirs, rollbackFile),
                            !.bpre = fs]
    /\ UNCHANGED <<fs, backups, rollbackFile, now, rb, exitCode>>

APICalls ==
    {Call(op, src, tgt) : op \in {"softlink", "hardlink"}, src \in Paths, tgt \in Paths}
    \cup {Call("delete", NoPath, tgt) : tgt \in Paths}

(* One call of execute_soft_link(src, tgt), execute_hard_link(src, tgt) or *)
(* execute_delete(tgt, ...)                                                *)
DirectCall(c) ==
    /\ pc = "api"
    /\ Len(hist.attempted) < MaxCalls
    /\ \E fault \in FaultsOf(c, ex.dry_run), follow \in FollowsOf(c, ex.dry_run) :
       LET w == Execute(TheWorld, ex.dry_run, ex.backup_dir, now, c, fault, follow)
       IN  /\ fs' = w.fs
           /\ backups' = w.bk
           /\ ex' = [ex EXCEPT !.rollback_entries = w.entries, !.stats = w.stats,
                               !.ret = w.ret]
           /\ hist' = Faulted([hist EXCEPT !.attempted = Append(@, Len(@) + 1)], fault)
    /\ UNCHANGED <<backupDirs, rollbackFile, now, pc, rb, exitCode>>

(* Time passes between two calls *)
TickOps ==
    /\ pc = "api"
    /\ now < MaxNow
    /\ now' = now + 1
    /\ UNCHANGED <<fs, backups, backupDirs, rollbackFile, pc, ex, rb, hist, exitCode>>

NextOps ==
    \/ TickOps
    \/ \E dry \in BOOLEAN : Construct(dry)
    \/ \E c \in APICalls : DirectCall(c)

SpecOps == Init /\ [][NextOps]_vars

-----------------------------------------------------------------------------
(* Properties *)

(* The path an entry's operation removed or replaced *)
Mutated(e) == IF e.operation_type = "delete" THEN e.original_path ELSE e.target_path

(* The step appends the entry e to the ledger of the session *)
Appends(e) == ex'.rollback_entries = Append(ex.rollback_entries, e)

NewEntries == {ex'.rollback_entries[i] : i \in 1..Len(ex'.rollback_entries)}

(* C3: whenever one of the three operations appends an entry, the file at  *)
(* the entry's backup path exists and holds the content the mutated path   *)
(* had before the step; also when the mutated path did not exist.          *)
C3_BackupOfEveryEntry ==
    [][\A e \in NewEntries : Appends(e) =>
          /\ e.backup_path \in DOMAIN backups'
          /\ backups'[e.backup_path] = Content(fs, Mutated(e))]_vars

(* C3, amended: whenever one of the three operations appends an entry for  *)
(* a path that existed before the step, the file at the entry's backup     *)
(* path exists and holds the content the path had before the step.         *)
C3_BackupOfExisting ==
    [][\A e \in NewEntries : Appends(e) /\ Exists(fs, Mutated(e)) =>
          /\ e.backup_path \in DOMAIN backups'
          /\ backups'[e.backup_path] = Content(fs, Mutated(e))]_vars

(* An operation called directly has appended an entry whose backup is on   *)
(* disk                                                                    *)
C3_Witness ==
    /\ pc = "api"
    /\ ex.ret = "ok"
    /\ ex.rollback_entries # <<>>
    /\ ex.rollback_entries[Len(ex.rollback_entries)].backup_path \in DOMAIN backups

(* A batch of the executor has returned and a reversal without filters of  *)
(* the ledger it persisted has returned; no statement of either raised for *)
(* a cause outside the program                                             *)
Reversed ==
    /\ pc = "idle"
    /\ hist.last = "rb"
    /\ hist.ended = "return"
    /\ hist.undo
    /\ hist.faults = 0

(* C1: after a batch that is not a dry run, whose requests all succeeded   *)
(* and named pairwise disjoint paths, the reversal without filters of the  *)
(* ledger the batch persisted leaves every path the batch named as it was  *)
(* before the batch: the same content, or absent.                          *)
C1_ReversalRestores ==
    Reversed /\ ~ex.dry_run /\ hist.allOk /\ hist.disjoint
        => \A p \in hist.touched : fs[p] = hist.bpre[p]

(* The run in progress, or the last one, is a dry run *)
DryRun ==
    \/ hist.last = "exec" /\ ex.dry_run
    \/ hist.last = "rb" /\ rb.dry_run

(* C2: during and after a dry run of either script the user files, the     *)
(* backup directories and the persisted ledger file are as they were when  *)
(* the run began.                                                          *)
C2_DryRunPure ==
    DryRun => Snapshot(fs, backups, backupDirs, rollbackFile) = hist.pre

(* C5: a ledger with entries that was on disk when a session of the        *)
(* executor began is still there, unchanged, during and after the session. *)
C5_LedgerKept ==
    hist.last = "exec" /\ hist.pre.file.state = "json" /\ hist.pre.file.operations # <<>>
        => rollbackFile = hist.pre.file

(* C7: the entries of one session name pairwise different backup paths.    *)
C7_BackupsDistinct ==
    \A i, j \in 1..Len(ex.rollback_entries) :
        i # j => ex.rollback_entries[i].backup_path # ex.rollback_entries[j].backup_path

(* C9: when a reversal that found entries to reverse is over, every entry  *)
(* of the filtered list has been attempted.                                *)
C9_AllAttempted ==
    hist.last = "rb" /\ pc = "idle" => hist.log = Reverse(hist.list)

(* A step of a request of the running session *)
RequestStep == pc \in {"loop", "second"} /\ ex' # ex

(* The effect of the operation of entry e is in place after the step *)
Effect(e) ==
    CASE e.operation_type = "delete" ->
            fs[e.original_path].k # "none" /\ fs'[e.original_path].k = "none"
      [] e.operation_type = "softlink" -> fs'[e.target_path] = Sym(e.original_path)
      [] OTHER -> fs'[e.target_path].k # "none"
                  /\ Content(fs', e.target_path) = Content(fs', e.original_path)

Created(stats) == stats.softlinks_created + stats.hardlinks_created + stats.files_deleted

(* C4: a step of a request either appends exactly one entry, whose         *)
(* operation succeeded and is in effect, or leaves the ledger alone, and   *)
(* then no operation succeeded: the files are as before, but for a link    *)
(* that failed after its target was removed.  Steps that are not of a      *)
(* request change neither.  The ledger has as many entries as links were   *)
(* created and files deleted.                                              *)
C4_LedgerExact ==
    [][/\ RequestStep =>
            \/ \E e \in NewEntries : Appends(e) /\ ex'.ret = "ok" /\ Effect(e)
            \/ /\ ex'.rollback_entries = ex.rollback_entries
               /\ ex'.ret # "ok"
               /\ fs' = fs \/ ex'.ret = "failed"
       /\ pc \in {"loop", "second"} /\ ex' = ex => fs' = fs
       /\ Len(ex'.rollback_entries) = Created(ex'.stats)]_vars

(* A session in which one request failed and appended nothing, and another *)
(* succeeded and appended its entry                                        *)
C4_Witness ==
    /\ pc = "loop"
    /\ ex.stats.errors = 1
    /\ ex.stats.processed_rows = 1
    /\ Len(ex.rollback_entries) = 1

(* C10: a step in which the backup of the target fails changes no file and *)
(* appends no entry, the request counts as an error, and the session goes  *)
(* on; the backup of every entry a step appends holds the content the      *)
(* mutated path had before the step.                                       *)
C10_BackupBeforeMutation ==
    [][/\ RequestStep /\ ex'.ret = "backup_failed" =>
            /\ fs' = fs
            /\ ex'.rollback_entries = ex.rollback_entries
            /\ pc' \in {"loop", "second"}
            /\ pc' = "loop" => ex'.stats.errors = ex.stats.errors + 1
       /\ \A e \in NewEntries : RequestStep /\ Appends(e) =>
            /\ Exists(fs, Mutated(e))
            /\ e.backup_path \in DOMAIN backups'
            /\ backups'[e.backup_path] = Content(fs, Mutated(e))]_vars

(* The backup of a request failed, the target is as it was, and the        *)
(* session has a request left to process                                   *)
C10_Witness ==
    /\ pc = "loop"
    /\ ex.ret = "backup_failed"
    /\ ex.stats.errors = 1
    /\ ex.done < ex.stats.total_rows

(* The filesystem after the reversal of the operations ops, one after the  *)
(* other in the order of ops, when no statement raises for an outside      *)
(* cause                                                                   *)
ReverseAll(f, bk, ops) ==
    LET F[i \in 0..Len(ops)] ==
            IF i = 0 THEN f
            ELSE rollback_operation(F[i - 1], bk, ops[i], FALSE, "none").fs
    IN  F[Len(ops)]

(* The ledger the reversal was given holds two link operations on one      *)
(* target                                                                  *)
Chained ==
    /\ Len(hist.list) = 2
    /\ \A i \in 1..2 : hist.list[i].operation_type \in {"softlink", "hardlink"}
    /\ hist.list[1].target_path = hist.list[2].target_path

(* C6: a reversal that returns has processed the filtered entries in the   *)
(* reverse of ledger order, each once; after the reversal of a batch of    *)
(* two link operations on one target the target is as it was before the    *)
(* batch, and it would not be had the two entries been processed in        *)
(* ledger order.                                                           *)
C6_ReverseOrder ==
    /\ pc = "idle" /\ hist.last = "rb" /\ hist.ended = "return"
           => hist.log = Reverse(hist.list)
    /\ Reversed /\ ~ex.dry_run /\ hist.allOk /\ Chained =>
           LET tgt == hist.list[1].target_path
           IN  /\ fs[tgt] = hist.bpre[tgt]
               /\ ReverseAll(hist.pre.fs, backups, hist.list)[tgt] # hist.bpre[tgt]

(* The requests attempted so far are the first ones of the input, in order *)
InInputOrder ==
    hist.attempted =
        [i \in 1..(ex.done + IF pc = "second" THEN 1 ELSE 0) |-> i]

(* A batch that parsed requests has returned *)
BatchOver ==
    /\ pc = "idle"
    /\ hist.last = "exec"
    /\ hist.ended = "return"
    /\ ex.stats.total_rows > 0

(* C8: a batch that has begun its loop returns; until then it attempts the *)
(* requests one by one in input order, whatever the outcomes; when it has  *)
(* returned every request has been attempted once, and the ledger, when it *)
(* has entries or the run is a dry run, has been written with the entries  *)
(* of the session unless the write itself failed.                          *)
C8_BatchCompletes ==
    /\ [](hist.last = "exec" => InInputOrder)
    /\ [](BatchOver =>
            /\ Len(hist.attempted) = ex.stats.total_rows
            /\ Saves(ex) /\ hist.faults = 0 => hist.wrote
            /\ hist.wrote => /\ rollbackFile.state = "json"
                             /\ rollbackFile.operations = ex.rollback_entries)
    /\ (pc = "loop") ~> BatchOver

(* A batch has returned after two requests, the first of which failed *)
C8_Witness ==
    /\ BatchOver
    /\ ex.stats.total_rows = 2
    /\ ~hist.allOk
    /\ ex.stats.errors >= 1
    /\ ex.stats.processed_rows >= 1

-----------------------------------------------------------------------------
(* The rollback script alone: started on a ledger an earlier session left, *)
(* on a tree that has changed since and with backups that may be gone      *)

UndoNodes == {NoNode, File(1), Sym("a/x")}

(* The backup paths the entries of the ledger name, and what they hold *)
UndoBackup(kind, p) == BackupPath(0, BackupName(kind, p, 0))

BackedUp == 2

UndoEntries ==
    <<RollbackEntry(0, "delete", "a/x", "", UndoBackup("delete", "a/x")),
      RollbackEntry(0, "softlink", "a/x", "b/x", UndoBackup("softlink", "b/x")),
      RollbackEntry(0, "hardlink", "a/x", "a/y", UndoBackup("hardlink", "a/y"))>>

UndoLedgers ==
    {<<>>} \cup {<<UndoEntries[i]>> : i \in 1..3}
           \cup {<<UndoEntries[i], UndoEntries[j]>> : i, j \in 1..3}

UndoFiles ==
    {NoFile} \cup {ForeignDoc(ops, TopLevel) : ops \in UndoLedgers \ {<<>>}}

InitUndo ==
    /\ fs \in [Paths -> UndoNodes]
    /\ \E S \in SUBSET {UndoEntries[i].backup_path : i \in 1..3} :
          backups = [bp \in S |-> BackedUp]
    /\ backupDirs = {0}
    /\ rollbackFile \in UndoFiles
    /\ now = 0
    /\ pc = "idle"
    /\ ex = NewExecutor(FALSE, 0, 0)
    /\ rb = [dry_run |-> FALSE, todo |-> <<>>, stats |-> RollbackStats(0)]
    /\ hist = [sessions |-> 0, last |-> "none", ended |-> "",
               pre |-> Snapshot(fs, backups, backupDirs, rollbackFile), bpre |-> fs,
               attempted |-> <<>>, allOk |-> TRUE, disjoint |-> TRUE,
               touched |-> {}, wrote |-> FALSE, rows |-> 0, faults |-> 0,
               rollbacks |-> 0,
               list |-> <<>>, log |-> <<>>, undo |-> FALSE,
               verdict |-> "NONE", start |-> NoStart,
               loaded |-> FALSE]
    /\ exitCode = -1

NextUndo ==
    \/ \E a \in Arguments :
          RbStart(a.dry, a.file, a.types, a.after, a.before)
    \/ RbStep
    \/ RbFinish

SpecUndo == InitUndo /\ [][NextUndo]_vars

-----------------------------------------------------------------------------
(* Properties of single requests *)

(* No statement of the step raised for a cause outside the program *)
NoFault == hist'.faults = hist.faults

(* C11: the executor call of an accepted link request leaves the source of *)
(* the link as it found it: it exists as before and reads as before; also  *)
(* when original and duplicate are one path or link to each other.         *)
C11_SourceUntouched ==
    [][\A r \in DuplicateEntry :
          r.action \in LinkActions /\ ProcessAction(r) =>
              LET src == Calls(r)[1].src
              IN  /\ Exists(fs', src) = Exists(fs, src)
                  /\ Content(fs', src) = Content(fs, src)]_vars

(* The step removes the node at path p *)
Removes(p) == fs[p] # NoNode /\ fs'[p] = NoNode

(* The step appends one delete entry, of path p *)
LogsDelete(p) ==
    \E e \in NewEntries :
        Appends(e) /\ e.operation_type = "delete" /\ e.original_path = p

(* C12: DELETE_BOTH deletes the two paths independently.  The delete of    *)
(* the duplicate is attempted whatever the delete of the original          *)
(* returned; each path a step removes has its own entry; a request of      *)
(* which exactly one path exists is accepted and, when no statement        *)
(* raises, leaves exactly one entry: that of the existing path.            *)
C12_DeleteBothIndependent ==
    /\ [][\A r \in DuplicateEntry :
             r.action = "DELETE_BOTH" /\ ProcessAction(r) =>
                 /\ pc' = "second"
                 /\ ex'.pending = <<Call("delete", NoPath, r.orig),
                                    Call("delete", NoPath, r.dup)>>
                 /\ \A p \in Paths : Removes(p) => p = r.orig /\ LogsDelete(p)]_vars
    /\ [][DeleteSecond =>
             /\ pc' = "loop"
             /\ \A p \in Paths : Removes(p) => p = ex.pending[2].tgt /\ LogsDelete(p)
             /\ Exists(fs, ex.pending[2].tgt) /\ ~ex.dry_run /\ NoFault =>
                    Removes(ex.pending[2].tgt)
             /\ (hist.start.orig # hist.start.dup) /\ ~ex.dry_run
                /\ RetOK(ex.ret) /\ NoFault =>
                    /\ Len(ex'.rollback_entries) = hist.start.n + 1
                    /\ LET e == ex'.rollback_entries[Len(ex'.rollback_entries)]
                       IN  /\ e.operation_type = "delete"
                           /\ e.original_path = IF hist.start.orig
                                                 THEN ex.pending[1].tgt
                                                 ELSE ex.pending[2].tgt]_vars
    /\ [](pc = "loop" =>
            \A r \in DuplicateEntry :
                r.action = "DELETE_BOTH" /\ Exists(fs, r.orig) # Exists(fs, r.dup) =>
                    "SUCCESS" \in Verdicts(fs, r))

(* A request with only its duplicate on disk has left exactly one entry *)
C12_Witness ==
    /\ pc = "loop" /\ ~ex.dry_run /\ ex.done = 1 /\ hist.faults = 0
    /\ hist.start = [orig |-> FALSE, dup |-> TRUE, n |-> 0]
    /\ ex.ret = "ok"
    /\ Len(ex.rollback_entries) = 1
    /\ fs[ex.rollback_entries[1].original_path] = NoNode
    /\ ex.stats.files_deleted = 1 /\ ex.stats.processed_rows = 1

(* What the step records for the row: processed_rows and errors gained *)
RowTally ==
    <<ex'.stats.processed_rows - ex.stats.processed_rows,
      ex'.stats.errors - ex.stats.errors>>

(* The tally of a row of which every call succeeded, and of which none did *)
TotalSuccess == <<1, 0>>

TotalFailure == <<0, 1>>

(* C13: when one of the two deletes of a DELETE_BOTH request removed its   *)
(* file and the other failed, what is recorded for the request is neither  *)
(* what is recorded for a request of which both deletes succeeded nor what *)
(* is recorded for one of which both failed.                               *)
C13_PartialSurfaced ==
    [][/\ DeleteSecond
       /\ \/ ex.ret = "ok" /\ ~RetOK(ex'.ret)
          \/ ~RetOK(ex.ret) /\ ex'.ret = "ok"
       => RowTally \notin {TotalSuccess, TotalFailure}]_vars

(* In environment env the file the link of request r is made to and the    *)
(* directory the link is made in are on different devices                  *)
AcrossDevices(f, r, env) ==
    LET c == Calls(r)[1]
    IN  /\ Exists(f, c.src)
        /\ env.dev[Dir(Final(f, c.src))] # env.dev[Dir(c.tgt)]

(* C14: a hard-link request of either kind, not rejected for a missing     *)
(* file or permission, whose source file and target directory are on       *)
(* different devices is answered CROSS_DEVICE; a request so answered       *)
(* changes neither the filesystem nor the backups nor the ledger, counts   *)
(* as skipped and not as an error.                                         *)
C14_CrossDevice ==
    /\ [](pc = "loop" =>
            \A r \in DuplicateEntry, env \in Environments :
                LET v == validate_file_paths(fs, env.writable, env.dev,
                                             r.orig, r.dup, r.action, FALSE)
                IN  r.action \in HardActions /\ AcrossDevices(fs, r, env)
                       /\ v # "ERROR" => v = "CROSS_DEVICE")
    /\ [][\A r \in DuplicateEntry :
             hist'.verdict = "CROSS_DEVICE" /\ SkipRow(r) =>
                 /\ r.action \in HardActions
                 /\ fs' = fs /\ backups' = backups
                 /\ ex'.rollback_entries = ex.rollback_entries
                 /\ ex'.stats = [ex.stats EXCEPT !.skipped = @ + 1]]_vars

-----------------------------------------------------------------------------
(* Properties of single reversals *)

(* The step is the reversal, not a dry run, of an entry of the given kinds *)
Reverses(kinds) ==
    /\ pc = "rb" /\ rb.todo # <<>> /\ rb' # rb
    /\ ~rb.dry_run
    /\ Head(rb.todo).operation_type \in kinds

(* The reversal of the step is counted as a success, as a failure *)
Succeeds ==
    rb'.stats = [rb.stats EXCEPT !.successful_rollbacks = @ + 1]

Fails ==
    rb'.stats = [rb.stats EXCEPT !.failed_rollbacks = @ + 1]

(* C15: the reversal of a delete entry fails and leaves the filesystem as  *)
(* it is when the backup copy is missing or the original path exists;      *)
(* otherwise, when the copy does not raise, it succeeds and the original   *)
(* path reads as the backup copy.                                          *)
C15_ReverseDelete ==
    [][Reverses({"delete"}) =>
          LET op == Head(rb.todo)
          IN  IF op.backup_path \notin DOMAIN backups \/ Exists(fs, op.original_path)
              THEN Fails /\ fs' = fs
              ELSE NoFault /\ CanWriteThrough(fs, op.original_path) =>
                      /\ Succeeds
                      /\ Content(fs', op.original_path) = backups[op.backup_path]
                      /\ \A p \in Paths : Exists(fs, p) => fs'[p] = fs[p]]_vars

(* A second reversal of the ledger has refused to overwrite the file the   *)
(* first one restored                                                      *)
C15_Witness ==
    /\ hist.rollbacks = 2 /\ pc = "rb" /\ ~rb.dry_run /\ hist.faults = 0
    /\ hist.log = <<UndoEntries[1]>>
    /\ UndoEntries[1].backup_path \in DOMAIN backups
    /\ Content(fs, "a/x") = BackedUp
    /\ fs = hist.pre.fs
    /\ rb.stats.failed_rollbacks = 1 /\ rb.stats.successful_rollbacks = 0

(* C16: the reversal of a softlink or hardlink entry removes what is at    *)
(* the target path, if anything, and copies the backup to that path; when  *)
(* nothing raises it succeeds if and only if the backup exists, also with  *)
(* nothing at the target path, and then the target path is a file with the *)
(* backup's content; no other path changes.                                *)
C16_ReverseLink ==
    [][Reverses({"softlink", "hardlink"}) /\ NoFault =>
          LET op == Head(rb.todo)
              kept == op.backup_path \in DOMAIN backups
          IN  /\ Succeeds <=> kept
              /\ ~kept => Fails /\ fs' = Unlink(fs, op.target_path)
              /\ kept => fs' = [fs EXCEPT ![op.target_path] =
                                               File(backups[op.backup_path])]]_vars

(* A link entry has been reversed with nothing at its target path *)
C16_Witness ==
    /\ pc = "rb" /\ ~rb.dry_run /\ hist.faults = 0 /\ hist.rollbacks = 1
    /\ hist.log = <<UndoEntries[3]>>
    /\ hist.pre.fs["a/y"] = NoNode
    /\ fs["a/y"] = File(BackedUp)
    /\ rb.stats.successful_rollbacks = 1

(* The path a request of one executor call replaces or removes, and the    *)
(* path it keeps                                                           *)
Replaced(r) ==
    IF r.action \in {"SOFTLINK_ORIGINAL", "HARDLINK_ORIGINAL", "DELETE_ORIGINAL"}
    THEN r.orig ELSE r.dup

Kept(r) ==
    IF r.action \in {"SOFTLINK_ORIGINAL", "HARDLINK_ORIGINAL", "DELETE_ORIGINAL"}
    THEN r.dup ELSE r.orig

(* C17: a successful request changes the path its kind names and no other: *)
(* the ORIGINAL kinds the original, the DUPLICATE kinds the duplicate.  A  *)
(* delete removes it; a soft link makes it a symbolic link to the kept     *)
(* path; after a link the replaced path reads as the kept file did and the *)
(* kept path is as it was.                                                 *)
C17_Directionality ==
    [][\A r \in DuplicateEntry :
          r.action \in (LinkActions \cup SingleDeletes)
          /\ ex'.ret = "ok" /\ ProcessAction(r) =>
              /\ \A p \in Paths \ {Replaced(r)} : fs'[p] = fs[p]
              /\ r.action \in SingleDeletes => fs'[Replaced(r)] = NoNode
              /\ r.action \in {"SOFTLINK_ORIGINAL", "SOFTLINK_DUPLICATE"} =>
                     fs'[Replaced(r)] = Sym(Kept(r))
              /\ r.action \in LinkActions =>
                     /\ Content(fs', Replaced(r)) = Content(fs, Kept(r))
                     /\ fs'[Kept(r)] = fs[Kept(r)]]_vars

(* A run of the rollback script is over *)
RollbackOver == hist.last = "rb" /\ pc = "idle"

(* C18: a run of the rollback script whose ledger file is missing, is no   *)
(* JSON or lacks "timestamp" or "operations" ends with exit code 1 and the *)
(* filesystem it found; every other run ends with 2 when the reversal of   *)
(* at least one entry failed and with 0 when none did.                     *)
C18_RollbackExit ==
    RollbackOver =>
        IF ~hist.loaded THEN exitCode = 1 /\ fs = hist.pre.fs
        ELSE exitCode = IF rb.stats.failed_rollbacks > 0 THEN 2 ELSE 0

(* A run of the executor has returned *)
ExecuteOver == hist.last = "exec" /\ pc = "idle" /\ hist.ended = "return"

(* The rows of the run tallied so far: each attempted row is tallied once *)
Tallied == ex.stats.processed_rows + ex.stats.errors + ex.stats.skipped

(* C19: execute returns 1 when the prerequisites fail or no row is parsed; *)
(* otherwise 2 when at least one row was tallied as an error and 0 when    *)
(* none was.  A row skipped for a blank, REVIEW_NEEDED or unknown action   *)
(* or for a device mismatch adds one to skipped and nothing to errors, so  *)
(* a run of such rows only returns 0.                                      *)
C19_ExecuteExit ==
    /\ [](ExecuteOver =>
            /\ exitCode = IF ex.stats.total_rows = 0 THEN 1
                          ELSE IF ex.stats.errors > 0 THEN 2 ELSE 0
            /\ Tallied = ex.stats.total_rows
            /\ ex.stats.skipped = ex.stats.total_rows /\ ex.stats.total_rows > 0
                  => exitCode = 0)
    /\ [][\A r \in DuplicateEntry :
             hist'.verdict \in {"NONE", "CROSS_DEVICE"} /\ SkipRow(r) =>
                 ex'.stats = [ex.stats EXCEPT !.skipped = @ + 1]]_vars

(* A run of which every row was skipped has returned 0 *)
C19_Witness ==
    /\ ExecuteOver /\ exitCode = 0
    /\ ex.stats.total_rows = MaxRows
    /\ ex.stats.skipped = MaxRows
    /\ ex.stats.errors = 0

(* The paths request r is to mutate: the targets of its executor calls     *)
(* that exist                                                              *)
MutatedPaths(f, r) ==
    {Calls(r)[i].tgt : i \in 1..Len(Calls(r))} \cap {p \in Paths : Exists(f, p)}

(* Every directory is writable *)
AllWritable == [d \in Dirs |-> TRUE]

(* C20: a request that is not rejected with every directory writable is    *)
(* rejected with some directories not writable if and only if the          *)
(* directory of a path it is to mutate is one of them; the directory of a  *)
(* path it only reads does not matter.                                     *)
C20_WritePermission ==
    pc = "loop" =>
        \A r \in DuplicateEntry, env \in Environments :
            r.action \in ActionType
            /\ validate_file_paths(fs, AllWritable, env.dev,
                                   r.orig, r.dup, r.action, FALSE) # "ERROR" =>
                (validate_file_paths(fs, env.writable, env.dev,
                                     r.orig, r.dup, r.action, FALSE) = "ERROR"
                 <=> \E p \in MutatedPaths(fs, r) : ~env.writable[Dir(p)])

-----------------------------------------------------------------------------
(* Further properties of the executor *)

(* C21: the validator rejects a link request and a single-side delete      *)
(* unless both paths exist; with every directory writable and no call      *)
(* raising it rejects a DELETE_BOTH exactly when neither path exists; a    *)
(* rejected row changes neither the filesystem nor the backups nor the     *)
(* ledger.                                                                 *)
C21_ValidateExistence ==
    /\ [](pc = "loop" =>
            \A r \in DuplicateEntry, env \in Environments, oserr \in BOOLEAN :
                LET v == validate_file_paths(fs, env.writable, env.dev,
                                             r.orig, r.dup, r.action, oserr)
                    v0 == validate_file_paths(fs, AllWritable, env.dev,
                                              r.orig, r.dup, r.action, FALSE)
                IN  /\ r.action \in (LinkActions \cup SingleDeletes)
                       /\ ~(Exists(fs, r.orig) /\ Exists(fs, r.dup)) => v = "ERROR"
                    /\ r.action \in SingleDeletes \cup {"SOFTLINK_ORIGINAL",
                                                         "SOFTLINK_DUPLICATE"}
                       /\ Exists(fs, r.orig) /\ Exists(fs, r.dup) => v0 = "SUCCESS"
                    /\ r.action = "DELETE_BOTH" =>
                          (v0 = "ERROR" <=> ~Exists(fs, r.orig) /\ ~Exists(fs, r.dup)))
    /\ [][\A r \in DuplicateEntry :
             hist'.verdict = "ERROR" /\ SkipRow(r) =>
                 /\ fs' = fs /\ backups' = backups /\ rollbackFile' = rollbackFile
                 /\ ex'.rollback_entries = ex.rollback_entries]_vars

(* A row has been rejected on a tree that lacks b/x; nothing has changed *)
C21_Witness ==
    /\ pc = "loop" /\ ex.done = 1 /\ hist.verdict = "ERROR"
    /\ fs["b/x"] = NoNode /\ fs = hist.bpre
    /\ ex.stats.errors = 1 /\ ex.rollback_entries = <<>> /\ backups = <<>>

(* The calls of execute_delete *)
Deletes == {c \in APICalls : c.op = "delete"}

(* The last call was a delete of path p that removed it *)
JustDeleted(p) ==
    /\ pc = "api" /\ ex.ret = "ok" /\ ex.rollback_entries # <<>>
    /\ LET e == ex.rollback_entries[Len(ex.rollback_entries)]
       IN  e.operation_type = "delete" /\ e.original_path = p

(* C22: execute_delete of a path that does not exist returns True and      *)
(* leaves the filesystem, the backups, the ledger and the counters as they *)
(* were; a delete that succeeded leaves no file at its path, so the same   *)
(* delete again changes nothing.                                           *)
C22_DeleteAbsent ==
    [][\A c \in Deletes :
          ~ex.dry_run /\ DirectCall(c) =>
              /\ ~Exists(fs, c.tgt) =>
                     /\ RetOK(ex'.ret)
                     /\ fs' = fs /\ backups' = backups /\ backupDirs' = backupDirs
                     /\ ex'.rollback_entries = ex.rollback_entries
                     /\ ex'.stats = ex.stats
              /\ ex'.ret = "ok" => fs'[c.tgt] = NoNode /\ ~Exists(fs', c.tgt)
              /\ JustDeleted(c.tgt) =>
                     /\ RetOK(ex'.ret)
                     /\ fs' = fs /\ backups' = backups
                     /\ ex'.rollback_entries = ex.rollback_entries]_vars

(* The second of two deletes of a/x has found it absent *)
C22_Witness ==
    /\ pc = "api" /\ ~ex.dry_run /\ Len(hist.attempted) = 2 /\ hist.faults = 0
    /\ ex.ret = "absent"
    /\ Len(ex.rollback_entries) = 1
    /\ ex.rollback_entries[1].operation_type = "delete"
    /\ ex.rollback_entries[1].original_path = "a/x"
    /\ fs["a/x"] = NoNode /\ fs["a/y"] # NoNode /\ fs["b/x"] # NoNode
    /\ ex.stats.files_deleted = 1

(* What the rollback script reads of an entry *)
ReadBack(e) ==
    <<e.operation_type, e.original_path, e.target_path, e.backup_path>>

(* C23: the ledger file changes only in the step that ends a batch; a      *)
(* batch, not a dry run, that appended entries and met no I/O error has    *)
(* written them, and a file it has written is a document that              *)
(* load_rollback_data accepts and that holds the entries of the session in *)
(* their order; the rollback script started on it without filters reads    *)
(* these entries, each with its kind and its three paths.                  *)
C23_LedgerRoundTrip ==
    /\ [][rollbackFile' # rollbackFile =>
             pc = "loop" /\ pc' = "idle" /\ ex.done = ex.stats.total_rows]_vars
    /\ [](ExecuteOver /\ ~ex.dry_run /\ ex.rollback_entries # <<>> =>
            /\ hist.faults = 0 => hist.wrote
            /\ hist.wrote =>
                  /\ load_rollback_data(rollbackFile)
                  /\ rollbackFile.operations = ex.rollback_entries
                  /\ ~rollbackFile.dry_run)
    /\ [][hist'.rollbacks = hist.rollbacks + 1 /\ hist'.undo =>
             /\ hist'.loaded
             /\ Len(hist'.list) = Len(ex.rollback_entries)
             /\ \A i \in 1..Len(hist'.list) :
                    ReadBack(hist'.list[i]) = ReadBack(ex.rollback_entries[i])
             /\ rb'.todo = Reverse(ex.rollback_entries)]_vars

(* The rollback script has loaded the two entries a batch wrote *)
C23_Witness ==
    /\ pc = "rb" /\ hist.undo /\ hist.loaded
    /\ Len(ex.rollback_entries) = 2
    /\ hist.list = ex.rollback_entries
    /\ rollbackFile.operations = ex.rollback_entries

(* C24: a session that is not a dry run starts with a backup directory    *)
(* that no earlier session has created.                                    *)
C24_BackupDirPerSession ==
    [][hist'.sessions = hist.sessions + 1 /\ ~ex'.dry_run =>
          ex'.backup_dir \notin backupDirs]_vars

(* The entry passes every filter given on the command line a *)
Selected(op, a) ==
    /\ a.types # {} => op.operation_type \in a.types
    /\ a.after # NoTimestamp => op.timestamp > a.after
    /\ a.before # NoTimestamp => op.timestamp < a.before

(* l holds the entries of ops that pass the filters of a, in their order *)
IsSelection(l, ops, a) ==
    LET hits == {i \in 1..Len(ops) : Selected(ops[i], a)}
        Nth(k) == CHOOSE i \in hits : Cardinality({j \in hits : j <= i}) = k
    IN  /\ Len(l) = Cardinality(hits)
        /\ \A k \in 1..Len(l) : l[k] = ops[Nth(k)]

(* C25: a rollback that loaded its ledger goes through the entries that    *)
(* pass every given filter (kind in the set, timestamp strictly between    *)
(* the bounds), all of them without a filter, in the reverse of their      *)
(* ledger order; with nothing selected it ends at once with exit code 0    *)
(* and nothing changed.                                                    *)
C25_Filters ==
    [][\A a \in Arguments :
          hist'.rollbacks = hist.rollbacks + 1 /\ hist'.loaded
          /\ RbStart(a.dry, a.file, a.types, a.after, a.before) =>
              LET doc == IF a.file = 0 THEN rollbackFile ELSE ForeignDocs[a.file]
              IN  /\ IsSelection(hist'.list, doc.operations, a)
                  /\ rb'.todo = Reverse(hist'.list)
                  /\ rb'.stats.total_operations = Len(hist'.list)
                  /\ (a.types = {} /\ a.after = NoTimestamp /\ a.before = NoTimestamp)
                        => hist'.list = doc.operations
                  /\ hist'.list = <<>> =>
                        /\ pc' = "idle" /\ exitCode' = 0
                        /\ fs' = fs /\ backups' = backups /\ rollbackFile' = rollbackFile
                  /\ hist'.list # <<>> => pc' = "rb"]_vars

(* A filter selected the second of two entries of the executor's ledger *)
C25_Witness ==
    /\ pc = "rb" /\ hist.loaded /\ hist.sessions > 0
    /\ Len(rollbackFile.operations) = 2
    /\ hist.list = <<rollbackFile.operations[2]>>
    /\ rb.todo = hist.list

Links == {c \in APICalls : c.op # "delete"}

(* The target of c is there again in f1 with the content it had in f0, and *)
(* no other path differs                                                   *)
TargetBack(f0, f1, c) ==
    /\ Exists(f1, c.tgt)
    /\ Content(f1, c.tgt) = Content(f0, c.tgt)
    /\ \A p \in Paths \ {c.tgt} : f1[p] = f0[p]

(* C26: a link call, not in a dry run, on a target that exists, whose link *)
(* primitive raises after the target was removed and whose restoring copy  *)
(* does not raise in turn, returns False with the target there again with  *)
(* its content, and appends no entry and counts nothing; no step that      *)
(* returns False from the try block appends an entry, and where it leaves  *)
(* something at the target it is the content of before.                    *)
C26_RestoreOnLinkFailure ==
    /\ [](pc = "api" /\ ~ex.dry_run =>
            \A c \in Links, follow \in BOOLEAN, fault \in {"none", "link"} :
                LET w == Execute(TheWorld, FALSE, ex.backup_dir, now, c, fault, follow)
                IN  Exists(fs, c.tgt) /\ w.ret = "failed" =>
                        /\ TargetBack(fs, w.fs, c)
                        /\ w.entries = ex.rollback_entries
                        /\ w.stats = ex.stats)
    /\ [][\A c \in Links :
             ~ex.dry_run /\ Exists(fs, c.tgt) /\ ex'.ret = "failed" /\ DirectCall(c) =>
                 /\ ex'.rollback_entries = ex.rollback_entries
                 /\ ex'.stats = ex.stats
                 /\ fs'[c.tgt] # NoNode => TargetBack(fs, fs', c)]_vars

(* The second call was to replace the link b/x by another link; its link   *)
(* primitive raised and b/x is now a copy of its backup, a regular file    *)
C26_Witness ==
    /\ pc = "api" /\ ~ex.dry_run /\ ex.ret = "failed"
    /\ Len(hist.attempted) = 2 /\ hist.faults = 1
    /\ Len(ex.rollback_entries) = 1
    /\ ex.rollback_entries[1].operation_type = "softlink"
    /\ ex.rollback_entries[1].target_path = "b/x"
    /\ ex.rollback_entries[1].original_path = "a/x"
    /\ fs["b/x"].k = "file" /\ fs["b/x"].c = fs["a/x"].c
    /\ Cardinality(DOMAIN backups) = 2

(* C27: a turn of the rollback loop that counts its entry as failed, no    *)
(* I/O call of it having raised, leaves the filesystem as it was.          *)
C27_FailedStepNoEffect ==
    [][/\ pc = "rb"
       /\ rb'.stats.failed_rollbacks = rb.stats.failed_rollbacks + 1
       /\ hist'.faults = hist.faults
       => fs' = fs]_vars

(* The filesystem a reversal without filters of the loaded ledger makes of *)
(* f when no statement raises for an outside cause                         *)
Once(f) == ReverseAll(f, backups, Reverse(hist.list))

(* C28: when the reversal without filters of the ledger a batch persisted  *)
(* has returned, the same reversal run again leaves the filesystem as the  *)
(* first run left it; and no step of the rollback script changes a backup  *)
(* copy or the ledger file.                                                *)
C28_ReversalIdempotent ==
    /\ [](RollbackOver /\ hist.undo /\ hist.ended = "return" =>
            /\ hist.faults = 0 => fs = Once(hist.pre.fs)
            /\ Once(Once(hist.pre.fs)) = Once(hist.pre.fs))
    /\ [][hist'.last = "rb" =>
             backups' = backups /\ rollbackFile' = rollbackFile]_vars

(* The reversal of a ledger of two entries has returned and has changed    *)
(* the two paths                                                           *)
C28_Witness ==
    /\ Reversed
    /\ Len(hist.list) = 2
    /\ Cardinality({p \in Paths : fs[p] # hist.pre.fs[p]}) = 2
    /\ fs = Once(hist.pre.fs)
    /\ Once(fs) = fs

(* C29: when the rollback script has gone through its list, the total is   *)
(* the sum of the three counters: each entry was counted once.             *)
C29_RollbackTally ==
    RollbackOver /\ hist.loaded /\ hist.ended = "return" =>
        /\ rb.stats.total_operations = Len(hist.list)
        /\ rb.stats.total_operations =
              rb.stats.successful_rollbacks + rb.stats.failed_rollbacks
              + rb.stats.skipped_operations

(* What the step adds to processed_rows, errors and skipped *)
TallyGain ==
    <<ex'.stats.processed_rows - ex.stats.processed_rows,
      ex'.stats.errors - ex.stats.errors,
      ex'.stats.skipped - ex.stats.skipped>>

(* C30: the step that ends process_action for a request adds one to        *)
(* exactly one of processed_rows, errors and skipped, and no other step of *)
(* a batch changes them; so the three add up to the number of requests     *)
(* handled so far, and to the number of parsed requests when the batch has *)
(* returned.                                                               *)
C30_OneTallyPerRequest ==
    /\ [][hist'.last = "exec" /\ hist'.sessions = hist.sessions =>
             IF ex'.done = ex.done + 1
             THEN TallyGain \in {<<1, 0, 0>>, <<0, 1, 0>>, <<0, 0, 1>>}
             ELSE TallyGain = <<0, 0, 0>> /\ ex'.done = ex.done]_vars
    /\ [](hist.last = "exec" =>
            /\ Tallied = ex.done
            /\ ExecuteOver => Tallied = ex.stats.total_rows)

(* A batch of a row that succeeded and of a row that failed has returned *)
C30_Witness ==
    /\ ExecuteOver
    /\ ex.stats.total_rows = 2 /\ ex.done = 2
    /\ ex.stats.processed_rows = 1 /\ ex.stats.errors = 1 /\ ex.stats.skipped = 0
    /\ Len(hist.attempted) = 2

====
